---- MODULE Spec2Model ----
(***************************************************************************)
(* Vibe-Check live session dashboard (src/pages/live_dashboard.py).        *)
(*                                                                         *)
(* The page holds three dcc.Store components (the score, the graph history *)
(* and the donut state), an Interval, and the components the two callbacks *)
(* write.  Dash invokes every callback once when the page loads (with      *)
(* n_intervals = 0, clickData = None) and then once per event; a callback  *)
(* receives copies of its State values and only what it returns for its    *)
(* Outputs is written back to the page.                                    *)
(*                                                                         *)
(* Units: hole sizes are in hundredths (0.5 -> 50, 0.65 -> 65), slice      *)
(* pulls in tenths (0.1 -> 1), time labels 'HH:MM' are pairs <<HH, MM>>,   *)
(* Python's None is the empty tuple and a present value v is <<v>>.        *)
(***************************************************************************)
EXTENDS Integers, Sequences, FiniteSets, TLC

VARIABLES
    vibe_data,              \* dcc.Store 'vibe-score-storage'
    graph_data,             \* dcc.Store 'predictive-graph-data'
    activity_chart_state,   \* dcc.Store 'activity-chart-state'
    vibe_out,               \* what update_vibe_score_and_color last wrote to the page
    activity_chart,         \* dcc.Graph 'activity-chart': figure and clickData
    state,                  \* update_activity_graph's own copy of the store, after its last call
    calls,                  \* invocations of each callback so far
    np_random,              \* the outcomes np.random.randint yields in this run
    probe                   \* scores handed to the derived-view functions, and their results

vars == <<vibe_data, graph_data, activity_chart_state, vibe_out, activity_chart,
          state, calls, np_random, probe>>

dashboard_vars == <<vibe_data, graph_data, activity_chart_state, vibe_out,
                    activity_chart, state, calls, np_random>>

\* ---------------------------------------------------------------- bounds
\* update_vibe_score_and_color invocations explored with every draw open
MaxTicks == 3
\* update_vibe_score_and_color invocations explored along one constant stream
MaxRun == 165
\* slice clicks after the page-load invocation of update_activity_graph
MaxClicks == 2
\* how far beyond [0,100] the probed scores reach
ArgMargin == 5

\* ---------------------------------------------------------------- Python values
None == <<>>
Some(v) == <<v>>

Max2(a, b) == IF a >= b THEN a ELSE b
Min2(a, b) == IF a <= b THEN a ELSE b

\* np.random.randint(low, high): an integer in [low, high)
randint(low, high) == low .. (high - 1)

\* seq[-n:]
LastN(seq, n) == IF Len(seq) <= n THEN seq ELSE SubSeq(seq, Len(seq) - n + 1, Len(seq))

\* seq[start:], start a 0-based non-negative index
Tail0(seq, start) == IF start >= Len(seq) THEN <<>> ELSE SubSeq(seq, start + 1, Len(seq))

\* the 1-based position Python's seq[i] addresses (a negative i counts from the end)
PyIndex(seq, i) == IF i < 0 THEN Len(seq) + i + 1 ELSE i + 1

\* the decimal digits of n >= 0, as f'{n}' prints them
RECURSIVE Digits(_)
Digits(n) == IF n < 10 THEN <<n>> ELSE Append(Digits(n \div 10), n % 10)

\* f'{n}%'
Percent(n) == [digits |-> Digits(n), suffix |-> "%"]

\* ---------------------------------------------------------------- derived views
MOCK_VIBE_SCORE == 95

VIBE_STATUS_MAP ==
    (80 :> [label |-> "OPTIMAL VIBE", color |-> "emerald-500", bg |-> "bg-emerald-900/50"]) @@
    (65 :> [label |-> "WATCH LEVEL", color |-> "yellow-500", bg |-> "bg-yellow-900/50"]) @@
    (50 :> [label |-> "HIGH ALERT", color |-> "orange-500", bg |-> "bg-orange-900/50"]) @@
    (0 :> [label |-> "CRITICAL BREACH", color |-> "red-500", bg |-> "bg-red-900/50"])

SetMax(S) == CHOOSE x \in S : \A y \in S : y <= x

\* sorted(VIBE_STATUS_MAP.items(), reverse=True): the keys, largest first
RECURSIVE SortedDesc(_)
SortedDesc(keys) ==
    IF keys = {} THEN <<>>
    ELSE <<SetMax(keys)>> \o SortedDesc(keys \ {SetMax(keys)})

\* the test of the scan: new_score >= threshold
MatchesStrict(new_score, threshold) == new_score > threshold
Matches(new_score, threshold) == new_score >= threshold

\* the for loop with its break: the first threshold of the list that matches,
\* or status_data as it was before the loop when none does
RECURSIVE Scan(_, _, _)
Scan(thresholds, new_score, status_data) ==
    IF thresholds = <<>> THEN status_data
    ELSE IF Matches(new_score, Head(thresholds)) THEN VIBE_STATUS_MAP[Head(thresholds)]
    ELSE Scan(Tail(thresholds), new_score, status_data)

\* "Determine Vibe Status Label and Class"
statusOf(new_score) ==
    Scan(SortedDesc(DOMAIN VIBE_STATUS_MAP), new_score, VIBE_STATUS_MAP[80])

\* f'px-3 py-1 font-bold rounded-full {bg} text-{color} border border-{color}'
StatusClass(status_data) ==
    <<"px-3 py-1 font-bold rounded-full", status_data.bg,
      "text-", status_data.color, "border border-", status_data.color>>

\* int(255 * (1 - ratio)) with ratio = (score - 50) / 50.0, in binary64:
\* the exact quotient truncated, except at score 90, where 1 - 0.8 is
\* 0.19999999999999996 and the product 50.99999999999999 truncates to 50
IntOneMinusRatio(score) ==
    IF score = 90 THEN 50 ELSE (255 * (100 - score)) \div 50

\* int(255 * ratio) with ratio = score / 50.0, in binary64 (exact for 0..49)
IntRatio(score) == (255 * score) \div 50

\* the branch score >= 50: <<r, g>>
UpperRampSwapped(score) == <<255, IntOneMinusRatio(score)>>
UpperRamp(score) == <<IntOneMinusRatio(score), 255>>

\* the branch score < 50: <<r, g>>
LowerRampFalling(score) == <<255, 255 - IntRatio(score)>>
LowerRamp(score) == <<255, IntRatio(score)>>

\* f'{n:02x}' for n in 0..255
Hex2(n) == <<n \div 16, n % 16>>

\* the six hex digits after '#'
get_color_from_score(score_arg) ==
    LET score == Max2(0, Min2(100, score_arg))
        rg == IF score >= 50 THEN UpperRamp(score) ELSE LowerRamp(score)
    IN  Hex2(rg[1]) \o Hex2(rg[2]) \o <<0, 0>>

\* the channels a browser reads from '#rrggbb'
Red(color) == 16 * color[1] + color[2]
Green(color) == 16 * color[3] + color[4]
Blue(color) == 16 * color[5] + color[6]

\* ---------------------------------------------------------------- timeline data
\* pd.to_datetime(label, format='%H:%M'): minutes since 1900-01-01 00:00
to_datetime(label) == 60 * label[1] + label[2]

\* Timestamp.strftime('%H:%M'): the time of day, whatever the date
strftime(minutes) == <<(minutes \div 60) % 24, minutes % 60>>

\* pd.date_range('10:00', periods=10, freq='5min').strftime('%H:%M')
initial_time_labels == [i \in 1..10 |-> strftime(600 + 5 * (i - 1))]

\* list(np.random.randint(85, 95, 10)) is one of 10^10 lists; the model starts
\* from three of them: all lowest, all highest, and one rising through the range
InitialEngagements ==
    { [i \in 1..10 |-> 85], [i \in 1..10 |-> 94], [i \in 1..10 |-> 84 + i] }

\* "Trim the data to show only the last 20 points"
max_points == 20
TrimNever(series) == series
TrimFront(series) == SubSeq(series, 1, Min2(Len(series), max_points))
TrimSliceFrom(series) == Tail0(series, max_points)
Trim(series) == LastN(series, max_points)

\* the next time label
NewTimeFromFirst(time) ==
    IF time # <<>>
    THEN strftime(to_datetime(time[1]) + 5)
    ELSE <<10, 0>>
NewTime(time) ==
    IF time # <<>>
    THEN strftime(to_datetime(time[Len(time)]) + 5)
    ELSE <<10, 0>>

\* the clamp of the new score
ClampTo100(new_score) == Max2(30, Min2(100, new_score))
ClampTopOnly(new_score) == Min2(99, new_score)
Clamp(new_score) == Max2(30, Min2(99, new_score))

ScoreChangeNoBias(current_score, first, high, low) == first

\* score_change after the two bias redraws; first, high and low are the outcomes
\* of randint(-3, 4), randint(-2, 2) and randint(-1, 4)
ScoreChange(current_score, first, high, low) ==
    LET biased == IF current_score > 85 /\ first > 0 THEN high ELSE first
    IN  IF current_score < 60 /\ biased < 0 THEN low ELSE biased

\* prediction_start_index
PredictionStartLong(actual) == Max2(0, Len(actual) - 6)
PredictionStart(actual) == Max2(0, Len(actual) - 5)

\* "Start prediction when score hits a critical level": the test of the branch
\* that sets the forecast and keeps the critical narrative
CriticalStrict(new_score) == new_score < 70
Critical(new_score) == new_score <= 70

\* one value of mock_forecast: score - 5 - i*2, i from enumerate (0-based)
MockValueOneBased(score, i) == score - 5 - (i + 1) * 2
MockValue(score, i) == score - 5 - i * 2

\* y_predicted: None everywhere, and when new_score <= 70 the mock forecast
\* score - 5 - i*2 merged in from prediction_start_index on
Forecast(actual, new_score) ==
    LET prediction_start_index == PredictionStart(actual)
        window == Tail0(actual, prediction_start_index)
        mock_forecast == [i \in 1..Len(window) |-> MockValue(window[i], i - 1)]
    IN  [index \in 1..Len(actual) |->
            IF Critical(new_score)
               /\ index - 1 >= prediction_start_index
               /\ index - 1 - prediction_start_index < Len(mock_forecast)
            THEN Some(mock_forecast[index - prediction_start_index])
            ELSE None]

CRITICAL_PREDICTION ==
    "PREDICTED VIBE DROP: -25% in 15 minutes. HIGH DISENGAGEMENT PROTOCOL ACTIVE."
CRITICAL_RECOMMENDATION ==
    "EXECUTE GROUP HACK V2.0 NOW (5 MIN). OVERRIDE FATIGUE/RE-ENGAGE."
STABLE_PREDICTION == "FORECAST: STABLE. CONTINUE CURRENT PEDAGOGICAL PROTOCOL."
STABLE_RECOMMENDATION == "PROTOCOL GREEN: MONITOR VIBE SCORE."

\* create_predictive_graph: the traces of the figure; the forecast trace is
\* added only when some predicted value is truthy (neither None nor 0)
create_predictive_graph(x_data, y_actual, y_predicted) ==
    [x |-> x_data,
     actual |-> y_actual,
     forecast |-> IF \E i \in 1..Len(y_predicted) :
                        y_predicted[i] # None /\ y_predicted[i] # Some(0)
                  THEN Some(y_predicted) ELSE None]

\* ---------------------------------------------------------------- donut chart
\* df_activity: one row per activity
df_activity ==
    <<[Activity |-> "Productive Group Work", Duration |-> 22],
      [Activity |-> "Facilitator Lecture", Duration |-> 15],
      [Activity |-> "Structured Practical", Duration |-> 8],
      [Activity |-> "Distractive Chaos", Duration |-> 3],
      [Activity |-> "Individual Quiet Work", Duration |-> 5]>>

\* the pointIndex values a click on the pie can carry
Slices == 0 .. (Len(df_activity) - 1)

\* the clickData of a click on slice k
ClickOn(k) == Some([points |-> <<[pointIndex |-> k]>>])

\* create_activity_graph(hole_size, pull_index): pull_index is None or <<i>>
create_activity_graph(hole_size, pull_index) ==
    LET pull_list == [i \in 1..Len(df_activity) |-> 0]
    IN  [hole |-> hole_size,
         pull |-> IF pull_index # None
                  THEN [pull_list EXCEPT ![PyIndex(pull_list, pull_index[1])] = 1]
                  ELSE pull_list]

\* the same-slice test and its two outcomes: <<new_pull_index, new_hole_size>>
ToggleNoZoom(clicked_index, pull_index) ==
    IF clicked_index = pull_index THEN <<-1, 50>> ELSE <<clicked_index, 50>>
Toggle(clicked_index, pull_index) ==
    IF clicked_index = pull_index THEN <<-1, 50>> ELSE <<clicked_index, 65>>

\* update_activity_graph(clickData, state): the figure it returns and its
\* state argument as the call leaves it
update_activity_graph(clickData, state_arg) ==
    IF clickData = None
    THEN [figure |-> create_activity_graph(50, Some(-1)),
          state |-> [state_arg EXCEPT !.pull_index = -1]]
    ELSE LET clicked_index == clickData[1].points[1].pointIndex
             new == Toggle(clicked_index, state_arg.pull_index)
         IN  [figure |-> create_activity_graph(new[2], Some(new[1])),
              state |-> [state_arg EXCEPT !.pull_index = new[1]]]

\* ---------------------------------------------------------------- random source
\* A run either leaves every randint outcome open at every call, or follows a
\* constant stream: the same outcome of each of the four randint calls throughout.
FreeSource == [free |-> TRUE, first |-> 0, high |-> 0, low |-> 0, focus |-> 2]

Streams ==
    [free : {FALSE}, first : randint(-3, 4), high : {-2, 1}, low : {-1, 3}, focus : {3}]

\* the outcomes the run allows for the randint call named by field
Draw(field, outcomes) ==
    IF np_random.free THEN outcomes ELSE {np_random[field]} \cap outcomes

\* ---------------------------------------------------------------- the page
\* '#rrggbb' as hex digits
FUCHSIA == <<14, 12, 4, 8, 9, 9>>
FUCHSIA_GLOW == <<13, 9, 4, 6, 14, 15>>

\* the components of layout as it is first rendered
LayoutOut(engagement) ==
    [text |-> Percent(MOCK_VIBE_SCORE),
     status |-> "OPTIMAL VIBE",
     className |-> <<"px-3 py-1 font-bold rounded-full", "bg-emerald-900/50",
                     "text-", "emerald-300", "border border-", "emerald-500">>,
     heading |-> [color |-> FUCHSIA, shadow |-> <<FUCHSIA_GLOW, FUCHSIA_GLOW>>],
     y_predicted |-> [i \in 1..Len(engagement) |-> None],
     figure |-> create_predictive_graph(initial_time_labels, engagement,
                                        [i \in 1..Len(engagement) |-> None]),
     focus |-> Percent(92),
     prediction |-> CRITICAL_PREDICTION,
     recommendation |-> CRITICAL_RECOMMENDATION]

NoProbe == [scores |-> <<0, 0>>, out |-> None]

InitPage(engagement) ==
    /\ vibe_data = [current_score |-> MOCK_VIBE_SCORE]
    /\ graph_data = [time |-> initial_time_labels,
                     actual |-> engagement,
                     predicted |-> [i \in 1..Len(engagement) |-> None]]
    /\ activity_chart_state = [pull_index |-> -1]
    /\ vibe_out = LayoutOut(engagement)
    /\ activity_chart = [figure |-> create_activity_graph(50, None), clickData |-> None]
    /\ state = None
    /\ calls = [vibe |-> 0, graph |-> 0]

Init ==
    /\ \E engagement \in InitialEngagements : InitPage(engagement)
    /\ np_random \in {FreeSource} \cup Streams
    /\ probe = NoProbe

\* ---------------------------------------------------------------- callbacks
\* update_vibe_score_and_color with the given randint outcomes
Advance(first, high, low, focus) ==
    LET current_score == vibe_data.current_score
        score_change == ScoreChange(current_score, first, high, low)
        new_score == Clamp(current_score + score_change)
        new_time == NewTime(graph_data.time)
        time == Trim(Append(graph_data.time, new_time))
        actual == Trim(Append(graph_data.actual, new_score))
        y_predicted == Forecast(actual, new_score)
        dynamic_color == get_color_from_score(new_score)
        status_data == statusOf(new_score)
    IN  /\ vibe_data' = [vibe_data EXCEPT !.current_score = new_score]
        /\ graph_data' = [graph_data EXCEPT !.time = time, !.actual = actual]
        /\ vibe_out' =
             [text |-> Percent(new_score),
              status |-> status_data.label,
              className |-> StatusClass(status_data),
              heading |-> [color |-> dynamic_color,
                           shadow |-> <<dynamic_color, dynamic_color>>],
              y_predicted |-> y_predicted,
              figure |-> create_predictive_graph(time, actual, y_predicted),
              focus |-> Percent(new_score + focus),
              prediction |-> IF Critical(new_score) THEN CRITICAL_PREDICTION
                             ELSE STABLE_PREDICTION,
              recommendation |-> IF Critical(new_score) THEN CRITICAL_RECOMMENDATION
                                 ELSE STABLE_RECOMMENDATION]

\* the outcomes of a bias redraw: the call is made only when its condition holds
Redraw(condition, field, outcomes) ==
    IF condition THEN Draw(field, outcomes) ELSE {0}

\* the Interval fires (or the page loads) and Dash runs update_vibe_score_and_color
Tick ==
    /\ calls.vibe < (IF np_random.free THEN MaxTicks ELSE MaxRun)
    /\ \E first \in Draw("first", randint(-3, 4)) :
       \E high \in Redraw(vibe_data.current_score > 85 /\ first > 0,
                          "high", randint(-2, 2)) :
       \E low \in Redraw(vibe_data.current_score < 60 /\ first < 0,
                         "low", randint(-1, 4)) :
       \E focus \in Draw("focus", randint(2, 5)) :
          Advance(first, high, low, focus)
    /\ calls' = [calls EXCEPT !.vibe = @ + 1]
    /\ UNCHANGED <<activity_chart_state, activity_chart, state, np_random, probe>>

\* Dash runs update_activity_graph with the chart's clickData and a copy of the
\* 'activity-chart-state' store; the figure is its only Output
RunActivityCallbackResettingScore(clickData) ==
    LET ret == update_activity_graph(clickData, activity_chart_state)
    IN  /\ activity_chart' = [figure |-> ret.figure, clickData |-> clickData]
        /\ state' = Some(ret.state)
        /\ calls' = [calls EXCEPT !.graph = @ + 1]
        /\ vibe_data' = [current_score |-> MOCK_VIBE_SCORE]
        /\ UNCHANGED <<graph_data, activity_chart_state, vibe_out, np_random, probe>>
RunActivityCallback(clickData) ==
    LET ret == update_activity_graph(clickData, activity_chart_state)
    IN  /\ activity_chart' = [figure |-> ret.figure, clickData |-> clickData]
        /\ state' = Some(ret.state)
        /\ calls' = [calls EXCEPT !.graph = @ + 1]
        /\ UNCHANGED <<vibe_data, graph_data, activity_chart_state, vibe_out,
                       np_random, probe>>

\* the invocation at page load: no slice has been clicked
LoadActivityChart ==
    /\ calls.graph = 0
    /\ RunActivityCallback(None)

\* the user clicks slice k of the donut
Click(k) ==
    /\ calls.graph >= 1
    /\ calls.graph <= MaxClicks
    /\ RunActivityCallback(ClickOn(k))

Next ==
    \/ Tick
    \/ LoadActivityChart
    \/ \E k \in Slices : Click(k)

Spec == Init /\ [][Next]_vars

\* ---------------------------------------------------------------- derived views, called directly
\* The two derived-view computations of update_vibe_score_and_color applied to a
\* pair of scores s1 <= s2 taken from [0 - ArgMargin, 100 + ArgMargin].
ProbeScores == (0 - ArgMargin) .. (100 + ArgMargin)

InitView ==
    /\ InitPage([i \in 1..10 |-> 84 + i])
    /\ np_random = FreeSource
    /\ probe \in [scores : {p \in ProbeScores \X ProbeScores : p[1] <= p[2]}, out : {None}]

RenderViews ==
    /\ probe.out = None
    /\ probe' = [probe EXCEPT !.out =
                    Some([status |-> <<statusOf(probe.scores[1]), statusOf(probe.scores[2])>>,
                          color |-> <<get_color_from_score(probe.scores[1]),
                                      get_color_from_score(probe.scores[2])>>])]
    /\ UNCHANGED dashboard_vars

NextView == RenderViews

SpecView == InitView /\ [][NextView]_vars

\* ---------------------------------------------------------------- score step, called directly
\* The score degradation logic of update_vibe_score_and_color applied to every
\* score the store can hold, with every outcome of each randint call it makes.
StoredScores == 30..99

InitStep ==
    /\ InitPage([i \in 1..10 |-> 84 + i])
    /\ np_random = FreeSource
    /\ probe \in [scores : {<<s>> : s \in StoredScores}, out : {None}]

DegradeScore ==
    /\ probe.out = None
    /\ LET current_score == probe.scores[1]
       IN  \E first \in Draw("first", randint(-3, 4)) :
           \E high \in Redraw(current_score > 85 /\ first > 0, "high", randint(-2, 2)) :
           \E low \in Redraw(current_score < 60 /\ first < 0, "low", randint(-1, 4)) :
              LET score_change == ScoreChange(current_score, first, high, low)
              IN  probe' = [probe EXCEPT !.out =
                               Some([first |-> first,
                                     score_change |-> score_change,
                                     new_score |-> Clamp(current_score + score_change)])]
    /\ UNCHANGED dashboard_vars

NextStep == DegradeScore

SpecStep == InitStep /\ [][NextStep]_vars

\* ================================================================ properties
\* the slices a figure shows pulled out (0-based, as pointIndex counts them)
Exploded(figure) == {k \in Slices : figure.pull[k + 1] # 0}

\* the un-exploded donut with the default hole: create_activity_graph()
Baseline(figure) == figure.hole = 50 /\ Exploded(figure) = {}

\* C1: in every reachable state, whatever the random source drew, the stored
\* current score lies in [30, 99].
C1_ScoreInBand == vibe_data.current_score \in 30..99

\* the walk has sat on the floor for two invocations with a negative draw: the
\* clamp turned 29 into 30
C1_Witness ==
    /\ calls.vibe > 1
    /\ ~np_random.free /\ np_random.first < 0 /\ np_random.low < 0
    /\ vibe_data.current_score = 30
    /\ LET actual == graph_data.actual
       IN  actual[Len(actual)] = 30 /\ actual[Len(actual) - 1] = 30

\* C2: after any number of advance calls the time and actual lists of the
\* graph-data store hold at most 20 samples.
C2_HistoryAtMost20 ==
    /\ Len(graph_data.time) <= 20
    /\ Len(graph_data.actual) <= 20

\* more invocations than free slots have happened and the buffer is full
C2_Witness ==
    /\ calls.vibe > 10
    /\ Len(graph_data.time) = 20
    /\ Len(graph_data.actual) = 20

\* C3: from the state page load leaves (pull index none), a click on slice k
\* followed by a second click on the same slice k yields the un-exploded donut
\* with the default hole size 0.5, whatever timer ticks fall in between.
C3_SecondClickResets ==
    [][(/\ calls.graph = 2
        /\ calls'.graph = 3
        /\ activity_chart.clickData # None
        /\ activity_chart'.clickData = activity_chart.clickData)
       => Baseline(activity_chart'.figure)]_vars

\* C4: an invocation of the click callback with null click data leaves the
\* chart of the initial render: no exploded slice and hole size 0.5.
C4_NullClickIsBaseline ==
    (calls.graph >= 1 /\ activity_chart.clickData = None)
        => activity_chart.figure = create_activity_graph(50, None)

\* C5: when the chart shows slice k exploded and a slice j # k is clicked, the
\* chart produced has exactly slice j exploded and hole size 0.65.
C5_OtherSliceExplodes ==
    [][\A j \in Slices : \A k \in Slices \ {j} :
          (/\ calls'.graph = calls.graph + 1
           /\ activity_chart'.clickData = ClickOn(j)
           /\ Exploded(activity_chart.figure) = {k})
          => (/\ Exploded(activity_chart'.figure) = {j}
              /\ activity_chart'.figure.hole = 65)]_vars

\* page load and two clicks have happened; the chart now shows slice 0, which a
\* click on 0 put there in place of the slice the click before it exploded
C5_Witness ==
    /\ calls.graph = 3
    /\ activity_chart.clickData = ClickOn(0)
    /\ Exploded(activity_chart.figure) = {0}
    /\ activity_chart.figure.hole = 65

\* C6: after every advance, a new score above 70 leaves every predicted value
\* passed to the timeline chart absent, and a new score of at most 70 leaves
\* predicted values present only within the last 5 samples of the trimmed history.
C6_ForecastOnlyInTail ==
    calls.vibe > 0 =>
        LET y_predicted == vibe_out.y_predicted
            n == Len(graph_data.actual)
        IN  /\ Len(y_predicted) = n
            /\ vibe_data.current_score > 70 =>
                  \A i \in 1..n : y_predicted[i] = None
            /\ vibe_data.current_score <= 70 =>
                  \A i \in 1..n : y_predicted[i] # None => i > n - 5

\* a full buffer under a critical score: forecast in slot 16, none in slot 15
C6_Witness ==
    /\ calls.vibe > 0
    /\ vibe_data.current_score <= 70
    /\ Len(graph_data.actual) = 20
    /\ vibe_out.y_predicted[16] # None
    /\ vibe_out.y_predicted[15] = None

\* the thresholds of the table that are at most s
ThresholdsUpTo(s) == {th \in DOMAIN VIBE_STATUS_MAP : th <= s}

\* the thresholds whose entry is the given band
BandsOf(status_data) == {th \in DOMAIN VIBE_STATUS_MAP : VIBE_STATUS_MAP[th] = status_data}

\* C7: for every integer score in [0,100] the threshold scan returns exactly one
\* band, the entry with the highest threshold <= score; of two adjacent scores
\* on either side of a threshold the lower resolves to a different, lower band.
C7_StatusIsHighestBandBelow ==
    probe.out # None =>
        LET s == probe.scores
            status == probe.out[1].status
        IN  /\ \A i \in 1..2 :
                  s[i] \in 0..100 =>
                     BandsOf(status[i]) = {SetMax(ThresholdsUpTo(s[i]))}
            /\ (/\ s[1] \in 0..100
                /\ s[2] = s[1] + 1
                /\ s[2] \in DOMAIN VIBE_STATUS_MAP) =>
                  /\ status[1] # status[2]
                  /\ \A lower \in BandsOf(status[1]) :
                     \A upper \in BandsOf(status[2]) : lower < upper

\* the scan has run on 79 and 80
C7_Witness ==
    /\ probe.out # None
    /\ probe.scores = <<79, 80>>
    /\ probe.out[1].status[1].label = "WATCH LEVEL"
    /\ probe.out[1].status[2].label = "OPTIMAL VIBE"

C9_ColorChannels ==
    probe.out # None =>
        \A i \in 1..2 :
            LET s == probe.scores[i]
                color == probe.out[1].color[i]
            IN  s \in 0..100 =>
                   /\ s >= 50 => Green(color) = 255
                   /\ s <= 50 => Red(color) = 255
                   /\ Blue(color) = 0

\* the colours of 50 (both channels full) and of a score above it
C9_Witness ==
    /\ probe.out # None
    /\ probe.scores = <<50, 75>>
    /\ Red(probe.out[1].color[1]) = 255
    /\ Green(probe.out[1].color[1]) = 255
    /\ Red(probe.out[1].color[2]) < 255

\* C10: for all integers s1 < s2, also outside [0,100], the green channel of the
\* colour of s1 is <= that of s2 and the red channel of s1 is >= that of s2.
C10_ColorMonotonic ==
    (probe.out # None /\ probe.scores[1] < probe.scores[2]) =>
        LET color == probe.out[1].color
        IN  /\ Green(color[1]) <= Green(color[2])
            /\ Red(color[1]) >= Red(color[2])

\* a score below 0 against one in the lower ramp, where green really rises
C10_Witness ==
    /\ probe.out # None
    /\ probe.scores[1] < 0
    /\ probe.scores[2] \in 1..49
    /\ Green(probe.out[1].color[1]) < Green(probe.out[1].color[2])

\* C11: after n advances from the initial history of 10 samples the history
\* holds exactly min(10 + n, 20) samples, so exactly 20 after 30 advances.
C11_LengthIsMin ==
    /\ Len(graph_data.actual) = Min2(10 + calls.vibe, 20)
    /\ Len(graph_data.time) = Min2(10 + calls.vibe, 20)

\* thirty advances have run
C11_Witness ==
    /\ calls.vibe = 30
    /\ Len(graph_data.actual) = 20
    /\ Len(graph_data.time) = 20

\* old followed by one more element, oldest element dropped iff old was full
SlidOver(old, new) ==
    /\ Len(old) < 20 => (Len(new) = Len(old) + 1 /\ \A i \in 1..Len(old) : new[i] = old[i])
    /\ Len(old) = 20 => (Len(new) = 20 /\ \A i \in 1..19 : new[i] = old[i + 1])

\* C12: every advance leaves the last 20 elements of the old history followed
\* by the new sample: the new sample is last, retained samples keep their
\* order, and one sample is dropped, from the front, only when the old history
\* already held 20.
C12_SlidingWindowFIFO ==
    [][calls'.vibe = calls.vibe + 1 =>
          /\ SlidOver(graph_data.actual, graph_data'.actual)
          /\ SlidOver(graph_data.time, graph_data'.time)
          /\ graph_data'.actual[Len(graph_data'.actual)] = vibe_data'.current_score]_vars

\* the buffer is full, every initial sample has been evicted, and the samples
\* kept are the walk's own
C12_Witness ==
    /\ calls.vibe = 21
    /\ Len(graph_data.actual) = 20
    /\ graph_data.time[1] = <<10, 55>>
    /\ graph_data.actual[20] = vibe_data.current_score

C14_AppliedChange ==
    probe.out # None =>
        LET current_score == probe.scores[1]
            first == probe.out[1].first
            d == probe.out[1].score_change
        IN  /\ d \in -3..3
            /\ current_score > 85 => d <= 1
            /\ (current_score > 85 /\ first > 0) => d \in -2..1
            /\ current_score < 60 => d >= -1
            /\ (current_score < 60 /\ first < 0) => d \in -1..3
            /\ current_score \in 60..85 => d = first

\* a positive first draw near the ceiling was replaced by the redraw's 1
C14_Witness ==
    /\ probe.out # None
    /\ probe.scores[1] = 99
    /\ probe.out[1].first = 3
    /\ probe.out[1].score_change = 1
    /\ probe.out[1].new_score = 99

\* the minutes from label a to label b, going forward around the clock
MinutesBetween(a, b) == ((60 * b[1] + b[2]) - (60 * a[1] + a[2]) + 1440) % 1440

\* C15: in every reachable state any two consecutive time labels of the history
\* are 'HH:MM' labels exactly 5 minutes apart modulo 24 hours (each advance
\* appends the label 5 minutes after the last, wrapping 23:55 to 00:00).
C15_FiveMinuteSteps ==
    LET time == graph_data.time
    IN  /\ \A i \in 1..Len(time) : time[i][1] \in 0..23 /\ time[i][2] \in 0..59
        /\ \A i \in 1..(Len(time) - 1) : MinutesBetween(time[i], time[i + 1]) = 5

\* the history runs across midnight
C15_Witness ==
    /\ calls.vibe > 0
    /\ \E i \in 1..(Len(graph_data.time) - 1) :
          graph_data.time[i] = <<23, 55>> /\ graph_data.time[i + 1] = <<0, 0>>

\* C16: after every advance the stable forecast text and the PROTOCOL GREEN
\* recommendation are shown exactly when the new score is > 70 and no forecast
\* value is set; the critical prediction text and the intervention
\* recommendation exactly when the new score is <= 70 and forecast values are set.
C16_NarrativeMatchesForecast ==
    calls.vibe > 0 =>
        LET forecast_set == \E i \in 1..Len(vibe_out.y_predicted) :
                               vibe_out.y_predicted[i] # None
        IN  /\ vibe_data.current_score > 70 =>
                  /\ vibe_out.prediction = STABLE_PREDICTION
                  /\ vibe_out.recommendation = STABLE_RECOMMENDATION
                  /\ ~forecast_set
            /\ vibe_data.current_score <= 70 =>
                  /\ vibe_out.prediction = CRITICAL_PREDICTION
                  /\ vibe_out.recommendation = CRITICAL_RECOMMENDATION
                  /\ forecast_set

\* the walk stands exactly on the threshold, with the critical narrative
C16_Witness ==
    /\ calls.vibe > 0
    /\ vibe_data.current_score = 70
    /\ vibe_out.prediction = CRITICAL_PREDICTION
    /\ vibe_out.y_predicted[Len(vibe_out.y_predicted)] # None

\* C17: a timer tick leaves the donut's pull index state and chart unchanged;
\* a donut click leaves the current score and the history unchanged.
C17_FrameConditions ==
    [][/\ calls'.vibe # calls.vibe =>
             /\ activity_chart_state' = activity_chart_state
             /\ activity_chart' = activity_chart
             /\ state' = state
       /\ calls'.graph # calls.graph =>
             /\ vibe_data' = vibe_data
             /\ graph_data' = graph_data]_vars

\* ticks have moved the score and clicks have exploded a slice, in one run
C17_Witness ==
    /\ calls.vibe >= 2
    /\ calls.graph = 3
    /\ vibe_data.current_score # MOCK_VIBE_SCORE
    /\ Exploded(activity_chart.figure) = {2}

\* C18: in every reachable state every actual value of the history is an
\* integer in [0,100], and after every advance every predicted value that is
\* present is an integer in [0,100].
C18_ValuesInRange ==
    /\ \A i \in 1..Len(graph_data.actual) : graph_data.actual[i] \in 0..100
    /\ calls.vibe > 0 =>
          \A i \in 1..Len(vibe_out.y_predicted) :
             vibe_out.y_predicted[i] # None => vibe_out.y_predicted[i][1] \in 0..100

\* the lowest forecast there is: the score on the floor, newest slot, 30 - 13
C18_Witness ==
    /\ calls.vibe > 0
    /\ vibe_data.current_score = 30
    /\ Len(vibe_out.y_predicted) = 20
    /\ vibe_out.y_predicted[20] = Some(17)

\* the number a '<digits>%' text shows
RECURSIVE DigitsValue(_)
DigitsValue(digits) ==
    IF digits = <<>> THEN 0
    ELSE 10 * DigitsValue(SubSeq(digits, 1, Len(digits) - 1)) + digits[Len(digits)]

\* C19: after every advance the last actual sample of the history equals the
\* stored current score and the score shown in the display text; before the
\* first advance the score is 95 and the last sample lies in [85, 94].
C19_LastSampleIsScore ==
    LET last == graph_data.actual[Len(graph_data.actual)]
    IN  /\ calls.vibe > 0 =>
              /\ last = vibe_data.current_score
              /\ vibe_out.text.suffix = "%"
              /\ DigitsValue(vibe_out.text.digits) = vibe_data.current_score
        /\ calls.vibe = 0 =>
              /\ vibe_data.current_score = 95
              /\ last \in 85..94

\* a full, fully renewed buffer whose last sample is a two-digit score shown as text
C19_Witness ==
    /\ calls.vibe > 20
    /\ vibe_data.current_score = 59
    /\ graph_data.actual[20] = 59
    /\ vibe_out.text = [digits |-> <<5, 9>>, suffix |-> "%"]

\* C20: in every reachable state the time and actual lists have the same
\* length, between 10 and 20, and no tick shortens them; so the history is
\* never empty when the next time label is computed.
C20_LengthBounds ==
    /\ [](/\ Len(graph_data.time) = Len(graph_data.actual)
          /\ Len(graph_data.actual) \in 10..20)
    /\ [][/\ Len(graph_data'.actual) >= Len(graph_data.actual)
          /\ Len(graph_data'.time) >= Len(graph_data.time)
          /\ calls'.vibe # calls.vibe => graph_data.time # <<>>]_vars

\* the lists have grown from 10 to 20 and ticks go on
C20_Witness ==
    /\ calls.vibe = 12
    /\ Len(graph_data.time) = 20
    /\ Len(graph_data.actual) = 20

====
